---- MODULE Spec2Model ----
(***************************************************************************)
(* Model of xrpl/binary_codec/types/amount.py: the Amount codec.           *)
(*                                                                         *)
(* Representation                                                          *)
(*   Python str      a sequence of one-character strings, <<"1",".","5">>  *)
(*   Python int >= 0 a sequence of decimal digits, most significant first, *)
(*                   without leading zeros (zero is <<0>>): the module's   *)
(*                   integers (10^15, 2^63, ...) exceed a 32-bit word      *)
(*   Python bytes    a sequence of numbers in 0..255                       *)
(*   Decimal         [sign, digits, exp], the fields of Decimal.as_tuple() *)
(*   decimal context [prec, Emax, Emin]; rounding is ROUND_HALF_EVEN and   *)
(*                   Overflow is trapped, as in a Context() built with     *)
(*                   the library's defaults                                *)
(***************************************************************************)
EXTENDS Integers, Sequences, FiniteSets, TLC

\* ------------------------------------------------------------ bounds
\* Trailing bytes that follow an amount field in a parser's buffer.
MaxTrailing == 1
\* Redundant fractional zeros appended to a spelled value ("1", "1.0", ...).
MaxFracZeros == 1

\* ------------------------------------------------------------ constants
_MIN_IOU_EXPONENT == -96
_MAX_IOU_EXPONENT == 80
_MAX_IOU_PRECISION == 16
_NOT_XRP_BIT_MASK == 128
_NATIVE_AMOUNT_BYTE_LENGTH == 8
_CURRENCY_AMOUNT_BYTE_LENGTH == 48

\* ------------------------------------------------------------ sequences
Rep(c, n) == [i \in 1..n |-> c]

Min(a, b) == IF a < b THEN a ELSE b

Max(a, b) == IF a > b THEN a ELSE b

\* str.find: index of the first character of s in cs, 0 when there is none.
Find(s, cs) ==
    IF \E i \in 1..Len(s) : s[i] \in cs
    THEN CHOOSE i \in 1..Len(s) : s[i] \in cs /\ \A j \in 1..(i-1) : s[j] \notin cs
    ELSE 0

\* str.rstrip(c)
RStrip(s, c) ==
    IF \A i \in 1..Len(s) : s[i] = c THEN <<>>
    ELSE SubSeq(s, 1, CHOOSE i \in 1..Len(s) :
                          s[i] # c /\ \A j \in (i+1)..Len(s) : s[j] = c)

DigitChars == <<"0", "1", "2", "3", "4", "5", "6", "7", "8", "9">>

IsDigitChar(c) == \E d \in 1..10 : DigitChars[d] = c

DigitVal(c) == (CHOOSE d \in 1..10 : DigitChars[d] = c) - 1

AllDigits(s) == \A i \in 1..Len(s) : IsDigitChar(s[i])

\* A digit sequence with its leading zeros removed; <<0>> for zero.
Norm(ds) ==
    IF \A i \in 1..Len(ds) : ds[i] = 0 THEN <<0>>
    ELSE SubSeq(ds, CHOOSE i \in 1..Len(ds) :
                        ds[i] # 0 /\ \A j \in 1..(i-1) : ds[j] = 0, Len(ds))

\* a < b for sequences of equal length, most significant first.
SeqLess(a, b) ==
    /\ a # b
    /\ LET i == CHOOSE k \in 1..Len(a) : a[k] # b[k] /\ \A j \in 1..(k-1) : a[j] = b[j]
       IN a[i] < b[i]

\* ------------------------------------------------------------ Python int
\* A Python int n >= 0 is the sequence of its base-10000 limbs, most significant
\* first, without leading zero limbs; zero is <<0>>.
IntIsZero(a) == a = <<0>>

IntLess(a, b) == IF Len(a) # Len(b) THEN Len(a) < Len(b) ELSE SeqLess(a, b)

\* int("".join(digits)) for decimal digits, and the decimal digits of an int.
IntFromDigits(ds) ==
    LET p == Rep(0, (4 - (Len(ds) % 4)) % 4) \o ds
    IN Norm([j \in 1..(Len(p) \div 4) |->
                1000 * p[4*j - 3] + 100 * p[4*j - 2] + 10 * p[4*j - 1] + p[4*j]])

IntToDigits(a) ==
    Norm([i \in 1..(4 * Len(a)) |->
            (a[((i - 1) \div 4) + 1] \div <<1000, 100, 10, 1>>[((i - 1) % 4) + 1]) % 10])

\* a * k + c for machine-sized k and c, carrying from the last limb.
RECURSIVE MulAddRaw(_, _, _)
MulAddRaw(a, k, c) ==
    IF Len(a) = 0 THEN (IF c = 0 THEN <<>> ELSE <<c \div 10000, c % 10000>>)
    ELSE LET t == a[Len(a)] * k + c
         IN Append(MulAddRaw(SubSeq(a, 1, Len(a) - 1), k, t \div 10000), t % 10000)

IntMulAdd(a, k, c) == Norm(MulAddRaw(a, k, c))

\* divmod(a, k) for machine-sized k, by long division from the first limb.
RECURSIVE DivModRaw(_, _, _, _)
DivModRaw(a, k, r, q) ==
    IF Len(a) = 0 THEN [q |-> Norm(q), r |-> r]
    ELSE LET t == r * 10000 + a[1]
         IN DivModRaw(Tail(a), k, t % k, Append(q, t \div k))

IntDivMod(a, k) == DivModRaw(a, k, 0, <<>>)

\* a + b
RECURSIVE AddRaw(_, _, _)
AddRaw(a, b, c) ==
    IF Len(a) = 0 /\ Len(b) = 0 THEN (IF c = 0 THEN <<>> ELSE <<c>>)
    ELSE LET u == IF Len(a) = 0 THEN 0 ELSE a[Len(a)]
             v == IF Len(b) = 0 THEN 0 ELSE b[Len(b)]
             t == u + v + c
         IN Append(AddRaw(IF Len(a) = 0 THEN a ELSE SubSeq(a, 1, Len(a) - 1),
                          IF Len(b) = 0 THEN b ELSE SubSeq(b, 1, Len(b) - 1),
                          t \div 10000), t % 10000)

IntAdd(a, b) == Norm(AddRaw(a, b, 0))

\* a * b
RECURSIVE IntMul(_, _)
IntMul(a, b) ==
    IF Len(b) = 0 THEN <<0>>
    ELSE IntAdd(IntMulAdd(IntMul(a, SubSeq(b, 1, Len(b) - 1)), 10000, 0),
                IntMulAdd(a, b[Len(b)], 0))

\* 10 ** n
IntPow10(n) == IntFromDigits(<<1>> \o Rep(0, n))

\* A machine integer 0 <= n < 10^8 as a Python int.
SmallToInt(n) == IF n < 10000 THEN <<n>> ELSE <<n \div 10000, n % 10000>>

\* str(n) for a Python int n >= 0
IntToStr(a) == LET ds == IntToDigits(a) IN [i \in 1..Len(ds) |-> DigitChars[ds[i] + 1]]

\* str(n) and "%+d" % n for a machine integer
SmallToStr(n) ==
    IF n < 0 THEN <<"-">> \o IntToStr(SmallToInt(-n)) ELSE IntToStr(SmallToInt(n))

SmallToSignedStr(n) ==
    IF n < 0 THEN <<"-">> \o IntToStr(SmallToInt(-n))
    ELSE <<"+">> \o IntToStr(SmallToInt(n))

\* ------------------------------------------------------------ bytes
\* The base-256 digits of a Python int, most significant first (none for zero).
RECURSIVE ToBase256(_)
ToBase256(a) ==
    IF IntIsZero(a) THEN <<>>
    ELSE LET d == IntDivMod(a, 256) IN Append(ToBase256(d.q), d.r)

PadLeft(bs, n) == Rep(0, n - Len(bs)) \o bs

\* Whether int.to_bytes(n, byteorder="big") succeeds (a < 256^n), and its result.
IntFits(a, n) == Len(ToBase256(a)) <= n

ToBytes(a, n) == PadLeft(ToBase256(a), n)

\* int.from_bytes(bs, byteorder="big")
RECURSIVE FromBytes(_)
FromBytes(bs) ==
    IF Len(bs) = 0 THEN <<0>>
    ELSE IntMulAdd(FromBytes(SubSeq(bs, 1, Len(bs) - 1)), 256, bs[Len(bs)])

\* x & y and x | y on numbers below 256, bit by bit
Bit(v, i) == (v \div <<1, 2, 4, 8, 16, 32, 64, 128>>[i]) % 2

BitAnd(u, v) ==
      1 * (Bit(u, 1) * Bit(v, 1)) + 2 * (Bit(u, 2) * Bit(v, 2))
    + 4 * (Bit(u, 3) * Bit(v, 3)) + 8 * (Bit(u, 4) * Bit(v, 4))
    + 16 * (Bit(u, 5) * Bit(v, 5)) + 32 * (Bit(u, 6) * Bit(v, 6))
    + 64 * (Bit(u, 7) * Bit(v, 7)) + 128 * (Bit(u, 8) * Bit(v, 8))

BitOr(u, v) == u + v - BitAnd(u, v)

\* a | b and a & b on Python ints
IntOr(a, b) ==
    LET u == ToBase256(a)
        v == ToBase256(b)
        n == Max(Len(u), Len(v))
        pu == PadLeft(u, n)
        pv == PadLeft(v, n)
    IN FromBytes([i \in 1..n |-> BitOr(pu[i], pv[i])])

IntAnd(a, b) ==
    LET u == ToBase256(a)
        v == ToBase256(b)
        n == Max(Len(u), Len(v))
        pu == PadLeft(u, n)
        pv == PadLeft(v, n)
    IN FromBytes([i \in 1..n |-> BitAnd(pu[i], pv[i])])

\* a << 54: six bits, then six whole bytes
Shl54(a) ==
    IF IntIsZero(a) THEN a ELSE FromBytes(ToBase256(IntMulAdd(a, 64, 0)) \o Rep(0, 6))

\* ------------------------------------------------------------ Decimal
\* The context the module installs at import (setcontext, lines 26-28), and the
\* context a thread that has never called setcontext gets from getcontext():
\* a copy of the library's DefaultContext.
ModuleContext ==
    [prec |-> _MAX_IOU_PRECISION, Emax |-> _MAX_IOU_EXPONENT, Emin |-> _MIN_IOU_EXPONENT]

DefaultContext == [prec |-> 28, Emax |-> 999999, Emin |-> -999999]

\* int(s) for a string of digits with an optional sign, as a small integer.
RECURSIVE DigitsToSmall(_)
DigitsToSmall(s) ==
    IF Len(s) = 0 THEN 0
    ELSE DigitsToSmall(SubSeq(s, 1, Len(s) - 1)) * 10 + DigitVal(s[Len(s)])

HasSign(s) == Len(s) > 0 /\ s[1] \in {"+", "-"}

Unsigned(s) == IF HasSign(s) THEN Tail(s) ELSE s

SignBit(s) == IF Len(s) > 0 /\ s[1] = "-" THEN 1 ELSE 0

\* Decimal(s): the exact value a numeric string spells; the construction does
\* not round. ok is FALSE where the library raises InvalidOperation.
DecimalFromString(s) ==
    LET body == Unsigned(s)
        ePos == Find(body, {"e", "E"})
        num == IF ePos = 0 THEN body ELSE SubSeq(body, 1, ePos - 1)
        expStr == IF ePos = 0 THEN <<>> ELSE SubSeq(body, ePos + 1, Len(body))
        dot == Find(num, {"."})
        intPart == IF dot = 0 THEN num ELSE SubSeq(num, 1, dot - 1)
        fracPart == IF dot = 0 THEN <<>> ELSE SubSeq(num, dot + 1, Len(num))
        expDigits == Unsigned(expStr)
        ok == /\ AllDigits(intPart) /\ AllDigits(fracPart)
              /\ Len(intPart) + Len(fracPart) > 0
              /\ (ePos # 0 => (Len(expDigits) > 0 /\ AllDigits(expDigits)))
        e == IF ePos = 0 THEN 0
             ELSE IF SignBit(expStr) = 1 THEN -DigitsToSmall(expDigits)
             ELSE DigitsToSmall(expDigits)
        coeff == intPart \o fracPart
    IN IF ~ok THEN [ok |-> FALSE, sign |-> 0, digits |-> <<0>>, exp |-> 0]
       ELSE [ok |-> TRUE,
             sign |-> SignBit(s),
             digits |-> Norm([i \in 1..Len(coeff) |-> DigitVal(coeff[i])]),
             exp |-> e - Len(fracPart)]

\* Decimal.is_zero()
DecimalIsZero(d) == d.digits = <<0>>

\* Round-half-even of the digits cut off after the first `keep` digits of ds:
\* 1 when the coefficient is to be incremented, 0 otherwise.
RoundUp(ds, keep) ==
    LET rest == SubSeq(ds, keep + 1, Len(ds))
        half == <<5>> \o Rep(0, Len(rest) - 1)
        lastKept == IF keep = 0 THEN 0 ELSE ds[keep]
    IN IF Len(rest) = 0 THEN 0
       ELSE IF rest = half THEN lastKept % 2
       ELSE IF SeqLess(half, rest) THEN 1
       ELSE 0

\* Decimal._fix: round a result to the context's precision and exponent range.
Fix(ctx, d) ==
    LET Etiny == ctx.Emin - ctx.prec + 1
        Etop == ctx.Emax - ctx.prec + 1
        n == Len(d.digits)
        expMin0 == n + d.exp - ctx.prec
        expMin == IF expMin0 < Etiny THEN Etiny ELSE expMin0
        keep == n + d.exp - expMin
        src == IF keep < 0 THEN <<1>> ELSE d.digits
        k == IF keep < 0 THEN 0 ELSE keep
        cut == IF k = 0 THEN <<0>> ELSE SubSeq(src, 1, k)
        inc == IF RoundUp(src, k) = 1
               THEN IntToDigits(IntAdd(IntFromDigits(cut), <<1>>))
               ELSE Norm(cut)
        over == Len(inc) > ctx.prec
        coeff == IF over THEN SubSeq(inc, 1, Len(inc) - 1) ELSE inc
        newExp == IF over THEN expMin + 1 ELSE expMin
    IN IF DecimalIsZero(d)
       THEN [ok |-> TRUE, sign |-> d.sign, digits |-> <<0>>,
             exp |-> Min(Max(d.exp, Etiny), ctx.Emax)]
       ELSE IF expMin0 > Etop
       THEN [ok |-> FALSE, sign |-> d.sign, digits |-> <<0>>, exp |-> 0]
       ELSE IF d.exp < expMin
       THEN (IF newExp > Etop
             THEN [ok |-> FALSE, sign |-> d.sign, digits |-> <<0>>, exp |-> 0]
             ELSE [ok |-> TRUE, sign |-> d.sign, digits |-> coeff, exp |-> newExp])
       ELSE [ok |-> TRUE, sign |-> d.sign, digits |-> d.digits, exp |-> d.exp]

\* a * b under a context; ok is FALSE where decimal.Overflow is raised.
DecimalMul(ctx, a, b) ==
    Fix(ctx, [sign |-> (a.sign + b.sign) % 2,
              digits |-> IF b.digits = <<1>> THEN a.digits
                         ELSE IntToDigits(IntMul(IntFromDigits(a.digits),
                                                 IntFromDigits(b.digits))),
              exp |-> a.exp + b.exp])

\* Decimal.compare(b) == -1 and == 1 on finite operands: the numerical order.
\* The operands are aligned on the smaller exponent and compared as integers.
Aligned(d, e) == IF DecimalIsZero(d) THEN <<0>> ELSE d.digits \o Rep(0, d.exp - e)

DecimalCompare(a, b) ==
    LET e == Min(a.exp, b.exp)
        x == Aligned(a, e)
        y == Aligned(b, e)
        sa == IF x = <<0>> THEN 0 ELSE IF a.sign = 1 THEN -1 ELSE 1
        sb == IF y = <<0>> THEN 0 ELSE IF b.sign = 1 THEN -1 ELSE 1
    IN IF sa # sb THEN (IF sa < sb THEN -1 ELSE 1)
       ELSE IF x = y THEN 0
       ELSE IF Len(x) < Len(y) \/ (Len(x) = Len(y) /\ SeqLess(x, y))
       THEN (IF sa = 1 THEN -1 ELSE 1)
       ELSE (IF sa = 1 THEN 1 ELSE -1)

\* str(d): Decimal.__str__, scientific notation with a capital E.
DecimalToStr(d) ==
    LET n == Len(d.digits)
        int == [i \in 1..n |-> DigitChars[d.digits[i] + 1]]
        leftdigits == d.exp + n
        dotplace == IF d.exp <= 0 /\ leftdigits > -6 THEN leftdigits ELSE 1
        intpart == IF dotplace <= 0 THEN <<"0">>
                   ELSE IF dotplace >= n THEN int \o Rep("0", dotplace - n)
                   ELSE SubSeq(int, 1, dotplace)
        fracpart == IF dotplace <= 0 THEN <<".">> \o Rep("0", -dotplace) \o int
                    ELSE IF dotplace >= n THEN <<>>
                    ELSE <<".">> \o SubSeq(int, dotplace + 1, n)
        exp == IF leftdigits = dotplace THEN <<>>
               ELSE <<"E">> \o SmallToSignedStr(leftdigits - dotplace)
        sign == IF d.sign = 1 THEN <<"-">> ELSE <<>>
    IN sign \o intpart \o fracpart \o exp

\* "{:f}".format(d): fixed-point notation, no exponent.
DecimalFormatF(d) ==
    LET n == Len(d.digits)
        int == [i \in 1..n |-> DigitChars[d.digits[i] + 1]]
        dotplace == d.exp + n
        intpart == IF dotplace <= 0 THEN <<"0">>
                   ELSE IF dotplace > n THEN int \o Rep("0", dotplace - n)
                   ELSE SubSeq(int, 1, dotplace)
        fracpart == IF dotplace < 0 THEN Rep("0", -dotplace) \o int
                    ELSE IF dotplace > n THEN <<>>
                    ELSE SubSeq(int, dotplace + 1, n)
        sign == IF d.sign = 1 THEN <<"-">> ELSE <<>>
    IN sign \o intpart \o (IF Len(fracpart) > 0 THEN <<".">> \o fracpart ELSE <<>>)

\* ------------------------------------------------------------ module constants
\* _MIN_MANTISSA = 10 ** 15 and _MAX_MANTISSA = 10 ** 16 - 1
_MIN_MANTISSA == IntPow10(15)

_MAX_MANTISSA == IntFromDigits(Rep(9, 16))

_MAX_DROPS == DecimalFromString(<<"1", "e", "1", "7">>)

_MIN_XRP == DecimalFromString(<<"1", "e", "-", "6">>)

\* 0x4000000000000000, 0x8000000000000000 and 0x3FFFFFFFFFFFFFFF
_POS_SIGN_BIT_MASK == FromBytes(<<64, 0, 0, 0, 0, 0, 0, 0>>)

_ZERO_CURRENCY_AMOUNT_HEX == FromBytes(<<128, 0, 0, 0, 0, 0, 0, 0>>)

NativeValueMask == FromBytes(<<63, 255, 255, 255, 255, 255, 255, 255>>)

\* ------------------------------------------------------------ outcomes
\* A call either returns bytes or raises. The module raises one exception class,
\* XRPLBinaryCodecException, at several places; err names the place by the kind
\* of failure it reports. The other names are the Python exceptions that escape.
Return(bs) == [ok |-> TRUE, err |-> "", bytes |-> bs]

Raise(e) == [ok |-> FALSE, err |-> e, bytes |-> <<>>]

\* ------------------------------------------------------------ validators
\* _contains_decimal doing what its name says: true when there IS a point.
_contains_decimal_AsNamed(string) == Find(string, {"."}) # 0

\* True when the string holds NO decimal point (string.find(".") == -1).
_contains_decimal(string) == Find(string, {"."}) = 0

\* "ok", or the failure raised.
verify_xrp_value(xrp_value) ==
    IF ~_contains_decimal(xrp_value) THEN "InvalidFormat"
    ELSE LET decimal == DecimalFromString(xrp_value)
         IN IF ~decimal.ok THEN "decimal.InvalidOperation"
            ELSE IF DecimalIsZero(decimal) THEN "ok"
            ELSE IF \/ DecimalCompare(decimal, _MIN_XRP) = -1
                    \/ DecimalCompare(decimal, _MAX_DROPS) = 1
            THEN "OutOfRange"
            ELSE "ok"

_verify_no_decimal(ctx, decimal) ==
    LET actual_exponent == decimal.exp
        exponent == DecimalFromString(<<"1", "e">> \o SmallToStr(-(actual_exponent - 15)))
        product == DecimalMul(ctx, decimal, exponent)
        int_number_string == DecimalFormatF(product)
    IN IF ~product.ok THEN "decimal.Overflow"
       ELSE IF ~_contains_decimal(int_number_string) THEN "DecimalPlaceFound"
       ELSE "ok"

\* verify_iou_value without its first statement, the return on zero.
verify_iou_value_NoZeroReturn(ctx, issued_currency_value) ==
    LET precision == ctx.prec
        exponent == issued_currency_value.exp
    IN IF \/ precision > _MAX_IOU_PRECISION
          \/ exponent > _MAX_IOU_EXPONENT
          \/ exponent < _MIN_IOU_EXPONENT
       THEN "PrecisionOutOfRange"
       ELSE _verify_no_decimal(ctx, issued_currency_value)

\* ctx is the calling thread's current decimal context (getcontext()).
verify_iou_value(ctx, issued_currency_value) ==
    IF DecimalIsZero(issued_currency_value) THEN "ok"
    ELSE LET precision == ctx.prec
             exponent == issued_currency_value.exp
         IN IF \/ precision > _MAX_IOU_PRECISION
               \/ exponent > _MAX_IOU_EXPONENT
               \/ exponent < _MIN_IOU_EXPONENT
            THEN "PrecisionOutOfRange"
            ELSE _verify_no_decimal(ctx, issued_currency_value)

\* ------------------------------------------------------------ issued value
\* while mantissa < _MIN_MANTISSA and exp > _MIN_IOU_EXPONENT
RECURSIVE Upscale(_, _)
Upscale(mantissa, exp) ==
    IF IntLess(mantissa, _MIN_MANTISSA) /\ exp > _MIN_IOU_EXPONENT
    THEN Upscale(IntMulAdd(mantissa, 10, 0), exp - 1)
    ELSE [mantissa |-> mantissa, exp |-> exp]

\* while mantissa > _MAX_MANTISSA, raising once exp >= _MAX_IOU_EXPONENT
RECURSIVE Downscale(_, _)
Downscale(mantissa, exp) ==
    IF IntLess(_MAX_MANTISSA, mantissa)
    THEN (IF exp >= _MAX_IOU_EXPONENT
          THEN [overflow |-> TRUE, mantissa |-> mantissa, exp |-> exp]
          ELSE Downscale(IntDivMod(mantissa, 10).q, exp + 1))
    ELSE [overflow |-> FALSE, mantissa |-> mantissa, exp |-> exp]

\* The two loops of _serialize_issued_currency_value on as_tuple()'s fields.
Canonicalize(decimal_value) ==
    LET up == Upscale(IntFromDigits(decimal_value.digits), decimal_value.exp)
    IN Downscale(up.mantissa, up.exp)

\* PackIssuedValue with the exponent biased by 96 instead of 97.
PackIssuedValue_Bias96(sign, mantissa, exp) ==
    LET serial0 == _ZERO_CURRENCY_AMOUNT_HEX
        serial1 == IF sign = 0 THEN IntOr(serial0, _POS_SIGN_BIT_MASK) ELSE serial0
        serial2 == IntOr(serial1, Shl54(SmallToInt(exp + 96)))
        serial3 == IntOr(serial2, mantissa)
    IN IF IntFits(serial3, 8) THEN Return(ToBytes(serial3, 8)) ELSE Raise("OverflowError")

\* serial, built by the three |= of the function, as 8 big-endian bytes.
PackIssuedValue(sign, mantissa, exp) ==
    LET serial0 == _ZERO_CURRENCY_AMOUNT_HEX
        serial1 == IF sign = 0 THEN IntOr(serial0, _POS_SIGN_BIT_MASK) ELSE serial0
        serial2 == IntOr(serial1, Shl54(SmallToInt(exp + 97)))
        serial3 == IntOr(serial2, mantissa)
    IN IF IntFits(serial3, 8) THEN Return(ToBytes(serial3, 8)) ELSE Raise("OverflowError")

\* The `if exp < _MIN_IOU_EXPONENT or mantissa < _MIN_MANTISSA` statement builds
\* the zero bytes and drops them: it has no effect, and control goes on.
_serialize_issued_currency_value(ctx, value) ==
    LET decimal_value == DecimalFromString(value)
        verified == verify_iou_value(ctx, decimal_value)
        c == Canonicalize(decimal_value)
    IN IF ~decimal_value.ok THEN Raise("decimal.InvalidOperation")
       ELSE IF verified # "ok" THEN Raise(verified)
       ELSE IF DecimalIsZero(decimal_value)
       THEN Return(ToBytes(_ZERO_CURRENCY_AMOUNT_HEX, 8))
       ELSE IF c.overflow THEN Raise("Overflow")
       ELSE IF c.exp > _MAX_IOU_EXPONENT \/ IntLess(_MAX_MANTISSA, c.mantissa)
       THEN Raise("Overflow")
       ELSE PackIssuedValue(decimal_value.sign, c.mantissa, c.exp)

\* ------------------------------------------------------------ native value
\* int(value): digits with an optional sign; anything else is a ValueError.
IntFromString(s) ==
    LET body == Unsigned(s)
    IN IF Len(body) > 0 /\ AllDigits(body)
       THEN [ok |-> TRUE, neg |-> SignBit(s) = 1,
             mag |-> IntFromDigits([i \in 1..Len(body) |-> DigitVal(body[i])])]
       ELSE [ok |-> FALSE, neg |-> FALSE, mag |-> <<0>>]

_serialize_xrp_amount(value) ==
    LET verified == verify_xrp_value(value)
        n == IntFromString(value)
        value_with_pos_bit == IntOr(n.mag, _POS_SIGN_BIT_MASK)
    IN IF verified # "ok" THEN Raise(verified)
       ELSE IF ~n.ok THEN Raise("ValueError")
       ELSE IF (n.neg /\ ~IntIsZero(n.mag)) \/ ~IntFits(value_with_pos_bit, 8)
       THEN Raise("OverflowError")
       ELSE Return(ToBytes(value_with_pos_bit, 8))

\* ------------------------------------------------------------ collaborators
\* Currency and AccountID turn a display string into 20 bytes and back; the codec
\* treats both as opaque. A standard currency code is 12 zero bytes, the three
\* ASCII letters and 5 zero bytes; an account is the 20 bytes its address names.
Currencies == {"USD", "EUR"}

Issuers == {"rIssuerA", "rIssuerB"}

CurrencyToBytes(c) ==
    Rep(0, 12) \o (IF c = "USD" THEN <<85, 83, 68>> ELSE <<69, 85, 82>>) \o Rep(0, 5)

AccountIDToBytes(i) == IF i = "rIssuerA" THEN Rep(161, 20) ELSE Rep(178, 20)

CurrencyToJson(bs) ==
    IF \E c \in Currencies : CurrencyToBytes(c) = bs
    THEN CHOOSE c \in Currencies : CurrencyToBytes(c) = bs
    ELSE "?"

AccountIDToJson(bs) ==
    IF \E i \in Issuers : AccountIDToBytes(i) = bs
    THEN CHOOSE i \in Issuers : AccountIDToBytes(i) = bs
    ELSE "?"

\* BinaryParser over the bytes still unread: peek() shows the next byte without
\* advancing, read(n) returns the next n bytes and advances by n, and both fail
\* when the bytes are not there.
ParserPeek(unread) ==
    IF Len(unread) = 0 THEN [ok |-> FALSE, byte |-> 0] ELSE [ok |-> TRUE, byte |-> unread[1]]

ParserRead(unread, n) ==
    IF n > Len(unread) THEN [ok |-> FALSE, bytes |-> <<>>, unread |-> unread]
    ELSE [ok |-> TRUE, bytes |-> SubSeq(unread, 1, n),
          unread |-> SubSeq(unread, n + 1, Len(unread))]

\* ------------------------------------------------------------ Amount
\* A value passed to from_value: a str, or a dict (a function from its keys).
StrValue(s) == [isStr |-> TRUE, str |-> s, dict |-> <<>>]

DictValue(d) == [isStr |-> FALSE, str |-> <<>>, dict |-> d]

_is_valid_issued_currency_amount(value) ==
    IF Cardinality(DOMAIN value) # 3 THEN FALSE
    ELSE IF DOMAIN value = {"currency", "issuer", "value"} THEN TRUE
    ELSE FALSE

_serialize_issued_currency_amount(ctx, value) ==
    LET amount_string == value["value"]
        amount_bytes == _serialize_issued_currency_value(ctx, amount_string)
        currency_bytes == CurrencyToBytes(value["currency"])
        issuer_bytes == AccountIDToBytes(value["issuer"])
    IN IF ~amount_bytes.ok THEN amount_bytes
       ELSE Return(amount_bytes.bytes \o currency_bytes \o issuer_bytes)

\* Amount.from_value: the outcome's bytes are the new Amount's buffer.
from_value(ctx, value) ==
    IF value.isStr THEN _serialize_xrp_amount(value.str)
    ELSE IF _is_valid_issued_currency_amount(value.dict)
    THEN _serialize_issued_currency_amount(ctx, value.dict)
    ELSE Raise("InvalidInput")

\* from_parser testing the sign bit (0x40) where it should test the not-XRP bit.
from_parser_SignBit(unread) ==
    LET peeked == ParserPeek(unread)
        not_xrp == BitAnd(peeked.byte, 64)
        num_bytes == IF not_xrp # 0 THEN _CURRENCY_AMOUNT_BYTE_LENGTH
                     ELSE _NATIVE_AMOUNT_BYTE_LENGTH
        got == ParserRead(unread, num_bytes)
    IN IF ~peeked.ok THEN [out |-> Raise("BufferUnderrun"), num_bytes |-> 0, unread |-> unread]
       ELSE IF ~got.ok
       THEN [out |-> Raise("BufferUnderrun"), num_bytes |-> num_bytes, unread |-> got.unread]
       ELSE [out |-> Return(got.bytes), num_bytes |-> num_bytes, unread |-> got.unread]

\* Amount.from_parser: the outcome, the bytes asked for, and the bytes left unread.
from_parser(unread) ==
    LET peeked == ParserPeek(unread)
        not_xrp == BitAnd(peeked.byte, 128)
        num_bytes == IF not_xrp # 0 THEN _CURRENCY_AMOUNT_BYTE_LENGTH
                     ELSE _NATIVE_AMOUNT_BYTE_LENGTH
        got == ParserRead(unread, num_bytes)
    IN IF ~peeked.ok THEN [out |-> Raise("BufferUnderrun"), num_bytes |-> 0, unread |-> unread]
       ELSE IF ~got.ok
       THEN [out |-> Raise("BufferUnderrun"), num_bytes |-> num_bytes, unread |-> got.unread]
       ELSE [out |-> Return(got.bytes), num_bytes |-> num_bytes, unread |-> got.unread]

is_native(buffer) == BitAnd(buffer[1], _NOT_XRP_BIT_MASK) = 0

\* is_positive testing the not-XRP bit (0x80) where it should test bit 62.
is_positive_NotXrpBit(buffer) == BitAnd(buffer[1], 128) > 0

is_positive(buffer) == BitAnd(buffer[1], 64) > 0

\* A JSON result: a str for a native amount, a dict for an issued one.
JsonStr(s) == [ok |-> TRUE, err |-> "", native |-> TRUE, value |-> s,
               currency |-> "", issuer |-> ""]

JsonDict(v, c, i) == [ok |-> TRUE, err |-> "", native |-> FALSE, value |-> v,
                      currency |-> c, issuer |-> i]

JsonRaise(e) == [ok |-> FALSE, err |-> e, native |-> FALSE, value |-> <<>>,
                 currency |-> "", issuer |-> ""]

\* hex(n)[2:] for n < 256 and bytes.hex(), as sequences of hexadecimal digits,
\* and int(digits, 16).
HexOfByte(n) == IF n < 16 THEN <<n>> ELSE <<n \div 16, n % 16>>

HexOfBytes(bs) ==
    [i \in 1..(2 * Len(bs)) |->
        IF i % 2 = 1 THEN bs[(i + 1) \div 2] \div 16 ELSE bs[i \div 2] % 16]

RECURSIVE IntFromHex(_)
IntFromHex(hs) ==
    IF Len(hs) = 0 THEN <<0>>
    ELSE IntMulAdd(IntFromHex(SubSeq(hs, 1, Len(hs) - 1)), 16, hs[Len(hs)])

\* Amount.to_json
to_json(ctx, buffer) ==
    IF is_native(buffer)
    THEN LET sign == IF is_positive(buffer) THEN <<>> ELSE <<"-">>
             masked_bytes == IntAnd(FromBytes(buffer), NativeValueMask)
         IN JsonStr(sign \o IntToStr(masked_bytes))
    ELSE LET head == ParserRead(buffer, 8)
             cur == ParserRead(head.unread, 20)
             iss == ParserRead(cur.unread, 20)
             value_bytes == head.bytes
             b1 == value_bytes[1]
             b2 == value_bytes[2]
             is_pos == BitAnd(b1, 64)
             sign == IF is_pos # 0 THEN <<>> ELSE <<"-">>
             exponent == (BitAnd(b1, 63) * 4) + (BitAnd(b2, 255) \div 64) - 97
             hex_mantissa == HexOfByte(BitAnd(b2, 63)) \o HexOfBytes(SubSeq(value_bytes, 3, 8))
             int_mantissa == IntFromHex(hex_mantissa)
             value == DecimalMul(ctx,
                                 DecimalFromString(sign \o IntToStr(int_mantissa)),
                                 DecimalFromString(<<"1", "e">> \o SmallToStr(exponent)))
             verified == verify_iou_value(ctx, value)
             value_str == IF DecimalIsZero(value) THEN <<"0">>
                          ELSE RStrip(RStrip(DecimalToStr(value), "0"), ".")
         IN IF ~head.ok \/ ~cur.ok \/ ~iss.ok THEN JsonRaise("BufferUnderrun")
            ELSE IF ~value.ok THEN JsonRaise("decimal.Overflow")
            ELSE IF verified # "ok" THEN JsonRaise(verified)
            ELSE JsonDict(value_str, CurrencyToJson(cur.bytes), AccountIDToJson(iss.bytes))

\* ------------------------------------------------------------ inputs
\* Issued values: a sign and integer digits, then 0..MaxFracZeros fractional
\* zeros, then an exponent suffix; and a few spellings with a real fraction.
E(chars) == <<"e">> \o chars

IssuedBases ==
    { [num |-> <<"0">>, exp |-> <<>>],
      [num |-> <<"-", "0">>, exp |-> <<>>],
      [num |-> <<"0">>, exp |-> E(<<"1", "0", "0">>)],
      [num |-> <<"1">>, exp |-> <<>>],
      [num |-> <<"-", "1">>, exp |-> <<>>],
      [num |-> <<"1", "2", "0", "0">>, exp |-> <<>>],
      [num |-> <<"1">> \o Rep("0", 15), exp |-> <<>>],
      [num |-> <<"1", "2", "3", "4", "5", "6", "7", "8", "9",
                 "0", "1", "2", "3", "4", "5", "6", "7">>, exp |-> <<>>],
      [num |-> <<"1">>, exp |-> E(<<"2", "0">>)],
      [num |-> <<"1">>, exp |-> E(<<"8", "0">>)],
      [num |-> <<"1">>, exp |-> E(<<"8", "1">>)],
      [num |-> <<"1">> \o Rep("0", 15), exp |-> E(<<"6", "6">>)],
      [num |-> Rep("9", 17), exp |-> E(<<"8", "0">>)],
      [num |-> <<"1">>, exp |-> E(<<"-", "9", "6">>)],
      [num |-> <<"1">> \o Rep("0", 15), exp |-> E(<<"-", "9", "6">>)],
      [num |-> <<"1">> \o Rep("0", 16), exp |-> E(<<"-", "9", "7">>)] }

Spelling(b, z) == b.num \o (IF z = 0 THEN <<>> ELSE <<".">> \o Rep("0", z)) \o b.exp

IssuedStrings ==
    { Spelling(b, z) : b \in IssuedBases, z \in 0..MaxFracZeros }
    \cup { <<"0", ".", "1", "e", "1">>, <<"0", ".", "5">>, <<"-", "1", ".", "2", "5">> }

\* Native strings.
NativeStrings ==
    { <<"0">>, <<"-", "0">>, <<"1">>, <<"1", "0", "0">>, <<"1", ".", "5">>,
      <<"0", ".", "0">>, <<"-", "1">>, <<"1">> \o Rep("0", 17),
      <<"1">> \o Rep("0", 16) \o <<"1">>, Rep("9", 17),
      <<"1", "e", "3">>, <<"1", "e", "-", "6">>, <<"1", "e", "-", "7">>,
      <<"1", "e", "1", "8">> }

\* The values handed to from_value: strings, well-formed dicts, and dicts that
\* lack a key or carry one too many.
Values ==
    { StrValue(s) : s \in NativeStrings }
    \cup { DictValue([value |-> v, currency |-> "USD", issuer |-> "rIssuerA"]) :
             v \in IssuedStrings }
    \cup { DictValue([value |-> <<"1">>, currency |-> "EUR", issuer |-> "rIssuerB"]),
           DictValue([value |-> <<"0">>, currency |-> "EUR", issuer |-> "rIssuerB"]),
           DictValue([value |-> <<"1">>, currency |-> "USD"]),
           DictValue([value |-> <<"1">>, currency |-> "USD", issuer |-> "rIssuerA",
                      memo |-> "x"]) }

\* Amount fields as they arrive in a parser: native fields of 8 bytes, issued
\* fields of 48, and buffers that end too early; each followed by trailing bytes.
NativeFields ==
    { <<64, 0, 0, 0, 0, 0, 0, 1>>, <<0, 0, 0, 0, 0, 0, 0, 1>>,
      <<0, 0, 0, 0, 0, 0, 0, 0>>, <<127, 255, 255, 255, 255, 255, 255, 255>>,
      <<65, 99, 69, 120, 93, 138, 0, 0>> }

IssuedValueFields ==
    { <<128, 0, 0, 0, 0, 0, 0, 0>>, <<212, 131, 141, 126, 164, 198, 128, 0>>,
      <<148, 131, 141, 126, 164, 198, 128, 0>>, <<232, 195, 141, 126, 164, 198, 128, 0>>,
      <<216, 127, 255, 255, 255, 255, 255, 255>>, <<128, 0, 0, 0, 0, 0, 0, 1>> }

ShortBuffers == { <<>>, <<64, 0, 0, 1>>, <<212, 131, 141, 126, 164, 198, 128, 0>> }

Cursors ==
    { f \o Rep(255, k) : f \in NativeFields, k \in 0..MaxTrailing }
    \cup { f \o CurrencyToBytes("USD") \o AccountIDToBytes("rIssuerA") \o Rep(255, k) :
             f \in IssuedValueFields, k \in 0..MaxTrailing }
    \cup ShortBuffers

\* ------------------------------------------------------------ state
\* Threads of the process. The module is imported, and setcontext is called, on
\* the thread "main"; a decimal context is local to its thread.
Threads == {"main", "worker"}

VARIABLES
    ctx,     \* ctx[t]: the current decimal context of thread t
    pc,      \* pc[t]: "idle", "built" (an Amount was asked for), "rendered"
    arg,     \* arg[t]: the call that thread t made
    amount,  \* amount[t]: the outcome of from_value / from_parser
    unread,  \* unread[t]: the bytes the parser has left after from_parser
    json     \* json[t]: the outcome of to_json

vars == <<ctx, pc, arg, amount, unread, json>>

NoArg == [op |-> "none", value |-> StrValue(<<>>), cursor |-> <<>>]

NoJson == JsonRaise("")

Init ==
    /\ ctx = [t \in Threads |-> IF t = "main" THEN ModuleContext ELSE DefaultContext]
    /\ pc = [t \in Threads |-> "idle"]
    /\ arg = [t \in Threads |-> NoArg]
    /\ amount = [t \in Threads |-> Raise("")]
    /\ unread = [t \in Threads |-> <<>>]
    /\ json = [t \in Threads |-> NoJson]

\* Thread t calls Amount.from_value(value).
FromValue(t, value) ==
    /\ pc[t] = "idle"
    /\ arg' = [arg EXCEPT ![t] = [op |-> "from_value", value |-> value, cursor |-> <<>>]]
    /\ amount' = [amount EXCEPT ![t] = from_value(ctx[t], value)]
    /\ pc' = [pc EXCEPT ![t] = "built"]
    /\ UNCHANGED <<ctx, unread, json>>

\* Thread t calls Amount.from_parser(parser) on a parser holding `cursor`.
FromParser(t, cursor) ==
    /\ pc[t] = "idle"
    /\ LET r == from_parser(cursor)
       IN /\ amount' = [amount EXCEPT ![t] = r.out]
          /\ unread' = [unread EXCEPT ![t] = r.unread]
    /\ arg' = [arg EXCEPT ![t] = [op |-> "from_parser", value |-> StrValue(<<>>),
                                  cursor |-> cursor]]
    /\ pc' = [pc EXCEPT ![t] = "built"]
    /\ UNCHANGED <<ctx, json>>

\* Thread t calls to_json() on the Amount it holds.
ToJson(t) ==
    /\ pc[t] = "built"
    /\ amount[t].ok
    /\ json' = [json EXCEPT ![t] = to_json(ctx[t], amount[t].bytes)]
    /\ pc' = [pc EXCEPT ![t] = "rendered"]
    /\ UNCHANGED <<ctx, arg, amount, unread>>

\* Thread t drops what it holds and is ready for the next call.
Release(t) ==
    /\ pc[t] \in {"built", "rendered"}
    /\ pc' = [pc EXCEPT ![t] = "idle"]
    /\ arg' = [arg EXCEPT ![t] = NoArg]
    /\ amount' = [amount EXCEPT ![t] = Raise("")]
    /\ unread' = [unread EXCEPT ![t] = <<>>]
    /\ json' = [json EXCEPT ![t] = NoJson]
    /\ UNCHANGED ctx

Next ==
    \E t \in Threads :
        \/ \E value \in Values : FromValue(t, value)
        \/ \E cursor \in Cursors : FromParser(t, cursor)
        \/ ToJson(t)
        \/ Release(t)

Spec == Init /\ [][Next]_vars

\* ------------------------------------------------------------ what the claims speak of
\* The real number a Decimal denotes: the trailing zeros of the coefficient are
\* moved into the exponent, and zero has a single form. Two Decimals are
\* numerically equal exactly when their RealOf are equal.
TrailingZeros(ds) ==
    Len(ds) - (CHOOSE i \in 1..Len(ds) : ds[i] # 0 /\ \A j \in (i+1)..Len(ds) : ds[j] = 0)

RealOf(d) ==
    IF d.digits = <<0>> THEN [sign |-> 0, digits |-> <<0>>, exp |-> 0]
    ELSE LET z == TrailingZeros(d.digits)
         IN [sign |-> d.sign, digits |-> SubSeq(d.digits, 1, Len(d.digits) - z),
             exp |-> d.exp + z]

RealOfString(s) == RealOf(DecimalFromString(s))

RealIsZero(r) == r.digits = <<0>>

\* The canonical pair of a nonzero real: its first 16 significant digits (zeros
\* appended when it has fewer, the rest cut off when it has more) and the
\* exponent that goes with them.
SpecMantissa(r) ==
    [i \in 1..16 |-> IF i <= Len(r.digits) THEN r.digits[i] ELSE 0]

SpecExponent(r) == r.exp + Len(r.digits) - 16

InCanonicalRange(r) ==
    ~RealIsZero(r) /\ SpecExponent(r) >= -96 /\ SpecExponent(r) <= 80

\* sign * mantissa * 10^exponent of the canonical pair
CanonicalReal(r) ==
    RealOf([sign |-> r.sign, digits |-> SpecMantissa(r), exp |-> SpecExponent(r)])

\* floor(log10 |r|) of a nonzero real
Magnitude(r) == r.exp + Len(r.digits) - 1

TwoPow63 == IntFromDigits(<<9, 2, 2, 3, 3, 7, 2, 0, 3, 6, 8, 5, 4, 7, 7, 5, 8, 0, 8>>)

TwoPow62 == IntFromDigits(<<4, 6, 1, 1, 6, 8, 6, 0, 1, 8, 4, 2, 7, 3, 8, 7, 9, 0, 4>>)

TwoPow54 == IntFromDigits(<<1, 8, 0, 1, 4, 3, 9, 8, 5, 0, 9, 4, 8, 1, 9, 8, 4>>)

ZeroValueField == <<128, 0, 0, 0, 0, 0, 0, 0>>

Called(t) == pc[t] \in {"built", "rendered"}

NativeArg(t) == arg[t].op = "from_value" /\ arg[t].value.isStr

IssuedArg(t) ==
    /\ arg[t].op = "from_value"
    /\ ~arg[t].value.isStr
    /\ DOMAIN arg[t].value.dict = {"currency", "issuer", "value"}

ParserArg(t) == arg[t].op = "from_parser"

IssuedValue(t) == arg[t].value.dict["value"]

ValueField(t) == SubSeq(amount[t].bytes, 1, 8)

\* Two encodings have the same outcome: both bytes and equal, or both failures.
SameOutcome(a, b) == (a.ok <=> b.ok) /\ (a.ok => a.bytes = b.bytes)

\* The native range: above 10^17, below 10^-6, below zero; and what C4 says of
\* every native string other than "100000000000000000".
AboveMaxDrops(r) ==
    ~RealIsZero(r) /\ r.sign = 0
    /\ (Magnitude(r) > 17 \/ (Magnitude(r) = 17 /\ r.digits # <<1>>))

BelowMinXrp(r) == ~RealIsZero(r) /\ r.sign = 0 /\ Magnitude(r) < -6

Negative(r) == ~RealIsZero(r) /\ r.sign = 1

HasDecimalPoint(s) == \E i \in 1..Len(s) : s[i] = "."

NativeRejection(t) ==
    LET str == arg[t].value.str
        r == RealOfString(str)
    IN /\ HasDecimalPoint(str) => (~amount[t].ok /\ amount[t].err = "InvalidFormat")
       /\ (~HasDecimalPoint(str) /\ (Negative(r) \/ BelowMinXrp(r) \/ AboveMaxDrops(r)))
             => (~amount[t].ok /\ amount[t].err = "OutOfRange")
       /\ str = <<"-", "1">> => (~amount[t].ok /\ amount[t].err = "OutOfRange")
       /\ str = <<"0">> => amount[t].ok

\* The integer a real with a non-negative exponent denotes.
IntegerOf(r) == IntFromDigits(r.digits \o Rep(0, r.exp))

\* The low 62 bits of a native buffer; a native buffer that to_json was called on.
Low62(bs) == FromBytes(<<bs[1] % 64>> \o SubSeq(bs, 2, 8))

NativeRendered(t) ==
    /\ pc[t] = "rendered"
    /\ Len(amount[t].bytes) = 8
    /\ amount[t].bytes[1] < 128

C7_LengthDispatch ==
    \A t \in Threads :
        (Called(t) /\ ParserArg(t)) =>
            LET cur == arg[t].cursor
                n == IF Len(cur) > 0 /\ cur[1] >= 128 THEN 48 ELSE 8
            IN IF amount[t].ok
               THEN /\ Len(cur) >= n
                    /\ amount[t].bytes = SubSeq(cur, 1, n)
                    /\ unread[t] = SubSeq(cur, n + 1, Len(cur))
                    /\ Len(cur) - Len(unread[t]) = n
                    /\ (is_native(amount[t].bytes) <=> n = 8)
               ELSE Len(cur) < n

\* An issued field was read off a cursor that holds trailing bytes.
C7_Witness ==
    \E t \in Threads :
        /\ Called(t) /\ ParserArg(t) /\ amount[t].ok
        /\ Len(amount[t].bytes) = 48
        /\ Len(unread[t]) > 0

\* C8: an issued amount whose value is zero, however spelled, is encoded with
\* the value field 0x8000000000000000.
C8_ZeroCanonicalForm ==
    \A t \in Threads :
        (Called(t) /\ IssuedArg(t)) =>
            (RealIsZero(RealOfString(IssuedValue(t))) =>
                 amount[t].ok /\ ValueField(t) = ZeroValueField)

\* A zero spelled with a sign was encoded.
C8_Witness ==
    \E t \in Threads :
        /\ Called(t) /\ IssuedArg(t) /\ amount[t].ok
        /\ IssuedValue(t) = <<"-", "0">>

\* C1: from_value followed by to_json, for an issued amount whose value has a
\* canonical pair with exponent in [-96, 80]: once from_value has encoded it,
\* to_json succeeds and returns the same currency, the same issuer and a value
\* numerically equal to sign * mantissa * 10^exponent. (That from_value encodes
\* every such value is part of C3.) Stated for the thread that imported the
\* module.
C1_IssuedRoundTrip ==
    (pc["main"] = "rendered" /\ IssuedArg("main")) =>
        LET d == arg["main"].value.dict
            r == RealOfString(d["value"])
        IN InCanonicalRange(r) =>
             /\ json["main"].ok
             /\ json["main"].currency = d["currency"]
             /\ json["main"].issuer = d["issuer"]
             /\ DecimalFromString(json["main"].value).ok
             /\ RealOfString(json["main"].value) = CanonicalReal(r)

\* C2: when the two loops leave the exponent below -96 or the mantissa below
\* 10^15, the encoder returns the zero value field. Stated for the thread that
\* imported the module.
C2_RoundsToZero ==
    (Called("main") /\ IssuedArg("main")) =>
        LET decimal_value == DecimalFromString(IssuedValue("main"))
            c == Canonicalize(decimal_value)
        IN ( /\ decimal_value.ok
             /\ ~DecimalIsZero(decimal_value)
             /\ verify_iou_value(ctx["main"], decimal_value) = "ok"
             /\ ~c.overflow
             /\ (c.exp < _MIN_IOU_EXPONENT \/ IntLess(c.mantissa, _MIN_MANTISSA)) ) =>
               amount["main"].ok /\ ValueField("main") = ZeroValueField

\* C3: two spellings of one real number are encoded with the same outcome, both
\* to the same value field or both to a failure; and every spelling of a real
\* whose canonical pair is in range is encoded. Stated for the thread that
\* imported the module: the value it encoded against every other spelling.
C3_UniquePerRealValue ==
    (Called("main") /\ IssuedArg("main")) =>
        LET v == IssuedValue("main")
            mine == _serialize_issued_currency_value(ctx["main"], v)
        IN /\ \A w \in IssuedStrings :
                RealOfString(w) = RealOfString(v) =>
                    SameOutcome(mine, _serialize_issued_currency_value(ctx["main"], w))
           /\ InCanonicalRange(RealOfString(v)) => amount["main"].ok

\* C4, as claimed: a native string with a decimal point fails with InvalidFormat;
\* one without fails with OutOfRange when it is negative, nonzero below 10^-6 or
\* above the upper bound; "-1" and "100000000000000000" both fail with
\* OutOfRange; "0" is accepted.
C4_NativeRejection_AsClaimed ==
    \A t \in Threads :
        (Called(t) /\ NativeArg(t)) =>
            /\ NativeRejection(t)
            /\ arg[t].value.str = <<"1">> \o Rep("0", 17) =>
                  (~amount[t].ok /\ amount[t].err = "OutOfRange")

\* C4, amended: as claimed, except that "100000000000000000" is 10^17, the upper
\* bound itself, and is accepted; the bound is exceeded from 10^17 + 1 on.
C4_NativeRejection ==
    \A t \in Threads :
        (Called(t) /\ NativeArg(t)) =>
            /\ NativeRejection(t)
            /\ arg[t].value.str = <<"1">> \o Rep("0", 17) => amount[t].ok
            /\ arg[t].value.str = <<"1">> \o Rep("0", 16) \o <<"1">> =>
                  (~amount[t].ok /\ amount[t].err = "OutOfRange")

\* The upper bound itself was encoded.
C4_Witness ==
    \E t \in Threads :
        /\ Called(t) /\ NativeArg(t) /\ amount[t].ok
        /\ arg[t].value.str = <<"1">> \o Rep("0", 17)

\* C6: every native string without a decimal point that is zero or within
\* [10^-6, 10^17] is encoded to the 8 bytes of value + 2^62, so that is_native and
\* is_positive hold, and is decoded to a string numerically equal to it. Stated
\* for the thread that imported the module.
C6_NativeLayout ==
    (Called("main") /\ NativeArg("main")) =>
        LET str == arg["main"].value.str
            r == RealOfString(str)
        IN ( /\ ~HasDecimalPoint(str)
             /\ DecimalFromString(str).ok
             /\ (RealIsZero(r) \/ ~(Negative(r) \/ BelowMinXrp(r) \/ AboveMaxDrops(r))) ) =>
               /\ amount["main"].ok
               /\ Len(amount["main"].bytes) = 8
               /\ r.exp >= 0
               /\ FromBytes(amount["main"].bytes) = IntAdd(IntegerOf(r), TwoPow62)
               /\ is_native(amount["main"].bytes)
               /\ is_positive(amount["main"].bytes)
               /\ pc["main"] = "rendered" =>
                    json["main"].ok /\ RealOfString(json["main"].value) = r

\* C9: on whatever thread a call is made and whatever the other threads do, it
\* returns what the same call on the same arguments returns alone under the
\* configuration the module sets (precision 16, exponents -96..80).
C9_CallIsolation ==
    \A t \in Threads :
        /\ (Called(t) /\ arg[t].op = "from_value") =>
              amount[t] = from_value(ModuleContext, arg[t].value)
        /\ (Called(t) /\ ParserArg(t)) => amount[t] = from_parser(arg[t].cursor).out
        /\ pc[t] = "rendered" => json[t] = to_json(ModuleContext, amount[t].bytes)

====
